---- MODULE Spec2Model ----
(***************************************************************************)
(* The real-time interview session manager of hiremind-ai                  *)
(* (backend/app/services/realtime_interview_service.py) together with the  *)
(* mock AI service it calls (backend/app/services/interview_service.py)    *)
(* and the HTTP/WebSocket endpoints in front of it                         *)
(* (backend/app/api/realtime_interview.py).                                *)
(*                                                                         *)
(* Texts are modelled by what the code reads of them: the length of the    *)
(* stripped text, the amount of surrounding whitespace, and the set of     *)
(* marker substrings of the lower-cased text.  Questions are named by      *)
(* their pool and position, replies by their fixed phrase and the          *)
(* question they embed.                                                    *)
(*                                                                         *)
(* Scheduling: asyncio tasks are cooperative.  A task is suspended only    *)
(* inside websocket.send and while waiting for its next inbound message;   *)
(* the awaits of the mock AI service never suspend (its coroutines hold    *)
(* no suspension point).  Each action below is one run of a task between   *)
(* two suspension points.                                                  *)
(***************************************************************************)
EXTENDS Integers, Sequences, FiniteSets, TLC

VARIABLES
    create_pc,              \* position of the create_session request
    active_sessions,        \* RealTimeInterviewManager.active_sessions
    websocket_connections,  \* RealTimeInterviewManager.websocket_connections
    sock,                   \* transport state of each client connection
    pc,                     \* position of each connection's handler task
    user_input,             \* handle_user_text's local user_text, per task
    ai_response,            \* handle_user_text's local ai_response, per task
    sent,                   \* the outbound event of the last step, if it sent one
    db,                     \* the committed rows of a turn-based interview session
    call                    \* a call of a function of the AI service, and its result

vars == <<create_pc, active_sessions, websocket_connections, sock, pc,
          user_input, ai_response, sent, db, call>>

----------------------------------------------------------------------------
(* Bounds of the model *)

MaxUserTurns == 2
DeepUserTurns == 9
FeedbackUserTurns == 3
SerialUserTurns == 3
MaxCount == 13

(* Program constants *)

NumQuestions == 8
TurnBasedQuestions == 5
MinTextLen == 5
FollowUpMaxLen == 200
ShortAnswerLen == 100
MinStarCount == 2
MinResumeLen == 100
LenBrief == 20
LenGood == 100
LenDetailed == 300
DetailLen == 200

Tokens == {"tok1"}
Conns == {"ws1", "ws2"}
\* connections are told apart only by the order in which they connect
Earlier(c) == IF c = "ws2" THEN {"ws1"} ELSE {}
SessionTypes == {"general", "technical", "behavioral"}

Min(a, b) == IF a < b THEN a ELSE b
Take(s, k) == IF k <= 0 THEN <<>> ELSE SubSeq(s, 1, Min(k, Len(s)))
Last(s) == s[Len(s)]

----------------------------------------------------------------------------
(* Texts *)

Text(pad, len, words) == [pad |-> pad, len |-> len, words |-> words]
NoText == Text(0, 0, {})
\* str.strip(): the surrounding whitespace is removed
strip(t) == Text(0, t.len, t.words)
\* len(text)
length(t) == t.pad + t.len
\* any(w in text.lower() for w in ws)
contains_any(t, ws) == t.words \cap ws # {}

----------------------------------------------------------------------------
(* Question bank: InterviewAIService.generate_questions *)

NoQ == <<"none", 0>>
question_templates(session_type) ==
    LET pool == IF session_type \in SessionTypes THEN session_type ELSE "general"
    IN  [i \in 1..10 |-> <<pool, i>>]

Trigger(any, n) == [any |-> any, q |-> <<"personalized", n>>]
personalized_rules(session_type) ==
    CASE session_type = "technical" ->
           << Trigger({"python"}, 1), Trigger({"javascript", "react"}, 2),
              Trigger({"database", "sql"}, 3), Trigger({"api"}, 4) >>
      [] session_type = "behavioral" ->
           << Trigger({"manager", "lead"}, 5), Trigger({"startup"}, 6),
              Trigger({"remote"}, 7) >>
      [] OTHER ->
           << Trigger({"internship"}, 8), Trigger({"volunteer"}, 9) >>

\* (mutant) every matched trigger gives a question, however many are asked for
generate_personalized_questions_uncapped(resume_text, session_type, num_questions) ==
    LET rules == personalized_rules(session_type)
        hit(r) == contains_any(resume_text, r.any)
        matched == SelectSeq(rules, hit)
    IN  [i \in 1..Len(matched) |-> matched[i].q]

generate_personalized_questions(resume_text, session_type, num_questions) ==
    LET rules == personalized_rules(session_type)
        hit(r) == contains_any(resume_text, r.any)
        matched == SelectSeq(rules, hit)
        personalized == [i \in 1..Len(matched) |-> matched[i].q]
    IN  Take(personalized, num_questions)

generate_questions(session_type, resume_text, num_questions) ==
    LET base_questions == question_templates(session_type)
        selected_questions ==
            IF length(resume_text) > MinResumeLen
            THEN LET personalized_questions ==
                         generate_personalized_questions(
                             resume_text, session_type, num_questions \div 2)
                 IN  personalized_questions \o
                     Take(base_questions, num_questions - Len(personalized_questions))
            ELSE Take(base_questions, num_questions)
    IN  Take(selected_questions, num_questions)

----------------------------------------------------------------------------
(* Evaluator: InterviewAIService.evaluate_answer. Scores are in tenths. *)

NoEval == [score |-> -1, feedback |-> "none", bonus |-> FALSE,
           strengths |-> <<>>, improvements |-> <<>>]

identify_strengths(answer, question_type) ==
    LET s1 == IF length(answer) > DetailLen THEN <<"comprehensive">> ELSE <<>>
        s2 == IF contains_any(answer, {"example", "instance", "experience", "time when"})
              THEN <<"examples">> ELSE <<>>
        s3 == IF question_type = "behavioral"
                 /\ contains_any(answer, {"learned", "improved", "result", "outcome"})
              THEN <<"results_oriented">> ELSE <<>>
        s4 == IF question_type = "technical"
                 /\ contains_any(answer, {"optimize", "efficient", "scalable"})
              THEN <<"best_practices">> ELSE <<>>
    IN  Take(s1 \o s2 \o s3 \o s4, 3)

suggest_improvements(answer, question_type, score) ==
    LET i1 == IF length(answer) < LenGood THEN <<"more_detail">> ELSE <<>>
        i2 == IF question_type = "behavioral"
                 /\ ~contains_any(answer, {"situation", "result", "outcome"})
              THEN <<"use_star">> ELSE <<>>
        i3 == IF question_type = "technical" /\ score < 70
              THEN <<"technical_detail">> ELSE <<>>
        i4 == IF contains_any(answer, {"um", "uh"}) THEN <<"filler_words">> ELSE <<>>
    IN  Take(i1 \o i2 \o i3 \o i4, 3)

baseline_score(answer_length) ==
    IF answer_length < LenBrief THEN 20
    ELSE IF answer_length < LenGood THEN 50
    ELSE IF answer_length < LenDetailed THEN 70
    ELSE 85

\* (mutant) the keywords count whatever the type of the question
keyword_bonus_any_type(answer, question_type) ==
    \/ contains_any(answer, {"implement", "algorithm", "optimize", "code",
                             "system", "database", "api"})
    \/ contains_any(answer, {"situation", "task", "action", "result",
                             "challenge", "solution"})

keyword_bonus(answer, question_type) ==
    \/ /\ question_type = "technical"
       /\ contains_any(answer, {"implement", "algorithm", "optimize", "code",
                                "system", "database", "api"})
    \/ /\ question_type = "behavioral"
       /\ contains_any(answer, {"situation", "task", "action", "result",
                                "challenge", "solution"})

evaluate_answer(question, answer, question_type) ==
    LET answer_length == length(strip(answer))
        base == baseline_score(answer_length)
        bonus == keyword_bonus(answer, question_type)
        score == Min(IF bonus THEN base + 5 ELSE base, 100)
    IN  [score |-> score,
         feedback |-> CASE base = 20 -> "brief" [] base = 50 -> "good_start"
                        [] base = 70 -> "well_structured" [] OTHER -> "excellent",
         bonus |-> bonus,
         strengths |-> identify_strengths(answer, question_type),
         improvements |-> suggest_improvements(answer, question_type, score)]

----------------------------------------------------------------------------
(* Session records, turns, replies and outbound events *)

Msg(kind, n, q) == [kind |-> kind, n |-> n, q |-> q]
NoMsg == Msg("none", 0, NoQ)
Turn(role, content, evaluation) ==
    [role |-> role, content |-> content, evaluation |-> evaluation]
\* an outbound event: the task that sent it, its type and content, and whether
\* send_message found an open connection to write it to
Event(by, type, msg, delivered) ==
    [by |-> by, type |-> type, msg |-> msg, delivered |-> delivered]
NoEvent == Event("none", "none", Msg("none", 0, <<"none", 0>>), FALSE)
\* a step of a handler that sent nothing, and why
Nothing(why) == Event("none", "none", Msg(why, 0, <<"none", 0>>), FALSE)

\* the fixed phrase tables of generate_contextual_response
follow_ups == 1..5
transitions == 1..4
vague_indicators == {"kind of", "sort of", "maybe", "probably", "i guess", "not sure"}
star_indicators == {"situation", "task", "action", "result"}

EmptyMap == [x \in {} |-> NoMsg]
MapPut(f, k, v) == [x \in DOMAIN f \cup {k} |-> IF x = k THEN v ELSE f[x]]
MapDel(f, k) == [x \in DOMAIN f \ {k} |-> f[x]]

UserTurns(history) == {k \in 1..Len(history) : history[k].role = "user"}
AssistantTurns(history) == {k \in 1..Len(history) : history[k].role = "assistant"}
MaxOf(S) == CHOOSE x \in S : \A y \in S : y <= x

----------------------------------------------------------------------------
(* Conversation policy *)

\* (mutant) the vagueness markers are not looked for
should_ask_followup_no_vague(text, session_type) ==
    \/ length(text) < ShortAnswerLen
    \/ /\ session_type = "behavioral"
       /\ Cardinality(text.words \cap {"situation", "task", "action", "result"})
              < MinStarCount

should_ask_followup(text, session_type) ==
    \/ length(text) < ShortAnswerLen
    \/ contains_any(text, vague_indicators)
    \/ /\ session_type = "behavioral"
       /\ Cardinality(text.words \cap star_indicators) < MinStarCount

\* (mutant) the session is marked completed when the questions are exhausted
generate_contextual_response_completing(session, text, i, j) ==
    LET current_question_index == session.current_question_index
        questions == session.questions
        should_follow_up ==
            \/ length(text) < ShortAnswerLen
            \/ contains_any(text, {"kind of", "sort of", "maybe", "probably",
                                   "i guess", "not sure"})
            \/ /\ session.session_type = "behavioral"
               /\ Cardinality(text.words \cap {"situation", "task", "action", "result"})
                      < MinStarCount
    IN  IF should_follow_up /\ length(text) < FollowUpMaxLen
        THEN [session |-> session, response |-> Msg("followup", i, NoQ)]
        ELSE IF current_question_index < Len(questions)
        THEN [session |-> [session EXCEPT !.current_question_index = @ + 1],
              response |-> Msg("transition", j, questions[current_question_index + 1])]
        ELSE [session |-> [session EXCEPT !.status = "completed"],
              response |-> Msg("all_prepared", 0, NoQ)]

\* i and j are the draws of random.choice from follow_ups and transitions
generate_contextual_response(session, text, i, j) ==
    LET current_question_index == session.current_question_index
        questions == session.questions
        should_follow_up == should_ask_followup(text, session.session_type)
    IN  IF should_follow_up /\ length(text) < FollowUpMaxLen
        THEN [session |-> session, response |-> Msg("followup", i, NoQ)]
        ELSE IF current_question_index < Len(questions)
        THEN [session |-> [session EXCEPT !.current_question_index = @ + 1],
              response |-> Msg("transition", j, questions[current_question_index + 1])]
        ELSE [session |-> session, response |-> Msg("all_prepared", 0, NoQ)]

\* lines 174-191: the answer is evaluated against the last assistant turn before
\* the last turn of the history, and the evaluation is stored on the last turn
attach_evaluation(session, text) ==
    LET history == session.conversation_history
        prior == AssistantTurns(SubSeq(history, 1, Len(history) - 1))
    IN  IF Len(history) > 1 /\ prior # {}
        THEN [session EXCEPT !.conversation_history[Len(history)].evaluation =
                  evaluate_answer(history[MaxOf(prior)].content, text,
                                  session.session_type)]
        ELSE session

\* (mutant) the introduction is answered with the question but the cursor stays
response_strategy_no_advance(session, cursor_read, text, i, j) ==
    LET questions == session.questions
        conversation_length == Cardinality(UserTurns(session.conversation_history))
    IN  IF conversation_length = 1
        THEN IF cursor_read < Len(questions)
             THEN [session |-> session,
                   response |-> Msg("introduction", 0, questions[cursor_read + 1])]
             ELSE [session |-> session, response |-> Msg("dive_in", 0, NoQ)]
        ELSE [session |-> session, response |-> Msg("concludes", 0, NoQ)]

\* lines 193-210
response_strategy(session, cursor_read, text, i, j) ==
    LET questions == session.questions
        conversation_length == Cardinality(UserTurns(session.conversation_history))
    IN  IF conversation_length = 1
        THEN IF cursor_read < Len(questions)
             THEN [session |-> [session EXCEPT !.current_question_index = @ + 1],
                   response |-> Msg("introduction", 0, questions[cursor_read + 1])]
             ELSE [session |-> session, response |-> Msg("dive_in", 0, NoQ)]
        ELSE IF conversation_length <= Len(questions)
        THEN generate_contextual_response(session, text, i, j)
        ELSE [session |-> session, response |-> Msg("concludes", 0, NoQ)]

\* (mutant) the reply is returned without being recorded in the history
generate_ai_response_unrecorded(session, text, i, j) ==
    LET out == response_strategy(attach_evaluation(session, text),
                                 session.current_question_index, text, i, j)
    IN  [session |-> out.session, response |-> out.response]

generate_ai_response(session, text, i, j) ==
    LET out == response_strategy(attach_evaluation(session, text),
                                 session.current_question_index, text, i, j)
    IN  [session |-> [out.session EXCEPT !.conversation_history =
                          Append(@, Turn("assistant", out.response, NoEval))],
         response |-> out.response]

----------------------------------------------------------------------------
(* Final feedback: generate_final_feedback, lines 347-393. Lists whose order *)
(* comes from list(set(...)) are sets here.                                  *)

DefaultScore == 50
FeedbackCap == 5

RECURSIVE sum_scores(_)
sum_scores(evaluations) ==
    IF evaluations = <<>> THEN 0
    ELSE evaluations[1].score + sum_scores(Tail(evaluations))

\* round(num / den, 1) of a score in tenths: to the nearest tenth, an exact
\* half going to the even tenth
round_tenths(num, den) ==
    LET q == num \div den
        r == num % den
    IN  IF 2 * r < den THEN q
        ELSE IF 2 * r > den THEN q + 1
        ELSE IF q % 2 = 0 THEN q ELSE q + 1

\* (mutant) only the turns that carry an evaluation are counted
user_responses_evaluated(conversation_history) ==
    LET evaluated(msg) == msg.role = "user" /\ msg.evaluation # NoEval
    IN  SelectSeq(conversation_history, evaluated)

\* line 352
user_responses(conversation_history) ==
    LET is_user(msg) == msg.role = "user"
    IN  SelectSeq(conversation_history, is_user)

\* line 363
attached_evaluations(responses) ==
    LET has_evaluation(msg) == msg.evaluation # NoEval
        evaluated == SelectSeq(responses, has_evaluation)
    IN  [k \in 1..Len(evaluated) |-> evaluated[k].evaluation]

\* (mutant) the scores are added up and not divided
average_score_total(evaluations) ==
    IF evaluations # <<>> THEN sum_scores(evaluations) ELSE DefaultScore

\* (mutant) the score of the last evaluation stands for all of them
average_score_last(evaluations) ==
    IF evaluations # <<>> THEN evaluations[Len(evaluations)].score ELSE DefaultScore

\* lines 365-368 and the round of line 385
average_score(evaluations) ==
    IF evaluations # <<>>
    THEN round_tenths(sum_scores(evaluations), Len(evaluations))
    ELSE DefaultScore

\* lines 371-382: list(set(entries))[:5], whose order and so whose choice of
\* five is not fixed; every choice is a possible result
deduplicated(entries) ==
    LET all == {entries[k] : k \in 1..Len(entries)}
    IN  {kept \in SUBSET all : Cardinality(kept) = Min(FeedbackCap, Cardinality(all))}

RECURSIVE extend(_, _)
extend(evaluations, field) ==
    IF evaluations = <<>> THEN <<>>
    ELSE evaluations[1][field] \o extend(Tail(evaluations), field)

\* the payloads generate_final_feedback can return for a session
generate_final_feedback(session) ==
    LET responses == user_responses(session.conversation_history)
        evaluations == attached_evaluations(responses)
    IN  IF responses = <<>>
        THEN { [overall_score |-> 0, summary |-> <<"no_responses", 0>>,
                strengths |-> {}, improvements |-> {}] }
        ELSE { [overall_score |-> average_score(evaluations),
                summary |-> <<"completed", Len(responses)>>,
                strengths |-> strengths,
                improvements |-> improvements,
                total_responses |-> Len(responses)] :
                   strengths \in deduplicated(extend(evaluations, "strengths")),
                   improvements \in deduplicated(extend(evaluations, "improvements")) }

----------------------------------------------------------------------------
(* Outbound sends: send_message *)

\* the event reaches a client: the token is mapped to a connection that is open
Delivered(session_token) ==
    /\ session_token \in DOMAIN websocket_connections
    /\ sock[websocket_connections[session_token]] = "open"

\* (mutant) the entry of a closed connection is kept
send_message_keeping(session_token) == websocket_connections

\* the mapping after one send: a send on a closed connection raises
\* ConnectionClosed, which removes the token's entry
send_message(session_token) ==
    IF /\ session_token \in DOMAIN websocket_connections
       /\ sock[websocket_connections[session_token]] # "open"
    THEN MapDel(websocket_connections, session_token)
    ELSE websocket_connections

----------------------------------------------------------------------------
(* Inputs *)

NoResume == Text(0, 0, {})
SessionRequests ==
    { <<"general", NoResume>>,
      <<"technical", Text(0, 150, {"python", "api"})>>,
      <<"behavioral", NoResume>> }

\* a short answer, a mid-length structured one, a long vague one, and a text
\* that is too short
UserTexts ==
    { Text(1, 50, {}),
      Text(0, 150, {"situation", "task", "optimize"}),
      Text(0, 250, {"maybe", "example"}),
      Text(2, 3, {}) }

\* the draws of random.choice that are explored: the first and the last phrase
\* of each table (no decision of the code reads the phrase that was drawn)
FollowUpDraws == {i \in follow_ups : i \in {1, 5}}
TransitionDraws == {j \in transitions : j \in {1, 4}}

----------------------------------------------------------------------------
(* create_session, lines 23-60 *)

\* lines 31-48: the session is stored before its questions exist
CreateSession(session_type, resume_text) ==
    /\ create_pc = "idle"
    /\ \E session_token \in Tokens \ DOMAIN active_sessions :
          active_sessions' = MapPut(active_sessions, session_token,
              [session_type |-> session_type,
               resume_text |-> resume_text,
               current_question_index |-> 0,
               questions |-> <<>>,
               conversation_history |-> <<>>,
               status |-> "waiting_for_connection"])
    /\ create_pc' = "generating"
    /\ sent' = NoEvent
    /\ UNCHANGED <<db, call, websocket_connections, sock, pc, user_input, ai_response>>

\* (mutant) the status is set before the questions are stored
finish_create_unfilled(session) == [session EXCEPT !.status = "ready"]

\* (mutant) the default number of questions is asked for
finish_create_default(session) ==
    [session EXCEPT
        !.questions = generate_questions(session.session_type,
                                         session.resume_text, 5),
        !.status = "ready"]

\* lines 51-58
finish_create(session) ==
    [session EXCEPT
        !.questions = generate_questions(session.session_type,
                                         session.resume_text, NumQuestions),
        !.status = "ready"]

\* lines 51-60: the questions are generated and the token is returned
FinishCreate ==
    /\ create_pc = "generating"
    /\ \E session_token \in DOMAIN active_sessions :
          active_sessions' = [active_sessions EXCEPT ![session_token] = finish_create(@)]
    /\ create_pc' = "done"
    /\ sent' = NoEvent
    /\ UNCHANGED <<db, call, websocket_connections, sock, pc, user_input, ai_response>>

\* a client holds a token once create_session has returned it
KnownTokens == IF create_pc = "done" THEN DOMAIN active_sessions ELSE {}

----------------------------------------------------------------------------
(* handle_websocket_connection, lines 62-93 *)

\* lines 64-79: the connection is registered and greeted
Connect(c, session_token) ==
    /\ sock[c] = "unused"
    /\ \A d \in Earlier(c) : sock[d] # "unused"
    /\ session_token \in KnownTokens
    /\ sock' = [sock EXCEPT ![c] = "open"]
    /\ websocket_connections' = MapPut(websocket_connections, session_token, c)
    /\ sent' = Event(c, "ai_message", Msg("greeting", 0, NoQ), TRUE)
    /\ pc' = [pc EXCEPT ![c] = "idle"]
    /\ UNCHANGED <<db, call, create_pc, active_sessions, user_input, ai_response>>

\* (mutant) the connection is registered before the token is looked up
RejectConnectRegistering(c, session_token) ==
    /\ sock[c] = "unused"
    /\ \A d \in Earlier(c) : sock[d] # "unused"
    /\ session_token \notin DOMAIN active_sessions
    /\ websocket_connections' = MapPut(websocket_connections, session_token, c)
    /\ sock' = [sock EXCEPT ![c] = "closed"]
    /\ pc' = [pc EXCEPT ![c] = "exited"]
    /\ sent' = Event(c, "error", Msg("invalid_session_token", 0, NoQ), TRUE)
    /\ UNCHANGED <<db, call, create_pc, active_sessions, user_input, ai_response>>

\* lines 64-69, and api/realtime_interview.py lines 61-68: a connection with a
\* token that is not in the store gets an error event and is closed
RejectConnect(c, session_token) ==
    /\ sock[c] = "unused"
    /\ \A d \in Earlier(c) : sock[d] # "unused"
    /\ session_token \notin DOMAIN active_sessions
    /\ sock' = [sock EXCEPT ![c] = "closed"]
    /\ pc' = [pc EXCEPT ![c] = "exited"]
    /\ sent' = Event(c, "error", Msg("invalid_session_token", 0, NoQ), TRUE)
    /\ UNCHANGED <<db, call, create_pc, active_sessions, websocket_connections,
                   user_input, ai_response>>

\* the client closes its connection
Disconnect(c) ==
    /\ sock[c] = "open"
    /\ sock' = [sock EXCEPT ![c] = "closed"]
    /\ sent' = NoEvent
    /\ UNCHANGED <<db, call, create_pc, active_sessions, websocket_connections, pc,
                   user_input, ai_response>>

\* lines 86-93: the message loop ends and the finally block drops the token's entry
HandlerExit(c, session_token) ==
    /\ pc[c] = "idle"
    /\ sock[c] = "closed"
    /\ session_token \in KnownTokens
    /\ websocket_connections' = MapDel(websocket_connections, session_token)
    /\ pc' = [pc EXCEPT ![c] = "exited"]
    /\ sent' = NoEvent
    /\ UNCHANGED <<db, call, create_pc, active_sessions, sock, user_input, ai_response>>

\* a task that waits for its next inbound message and can receive one
Receiving(c, session_token) ==
    /\ pc[c] = "idle"
    /\ sock[c] = "open"
    /\ session_token \in DOMAIN active_sessions

----------------------------------------------------------------------------
(* handle_user_text, lines 128-153, in its three runs *)

\* (mutant) the length is tested before the text is stripped
handle_user_text_unstripped(c, session_token, text, limit) ==
    LET session == active_sessions[session_token]
        user_text == strip(text)
    IN  IF length(text) < MinTextLen
        THEN /\ sent' = Nothing("dropped_text")
             /\ UNCHANGED <<db, call, create_pc, active_sessions, websocket_connections,
                            sock, pc, user_input, ai_response>>
        ELSE /\ Cardinality(UserTurns(session.conversation_history)) < limit
             /\ active_sessions' = [active_sessions EXCEPT
                    ![session_token].conversation_history =
                        Append(@, Turn("user", user_text, NoEval))]
             /\ user_input' = [user_input EXCEPT ![c] = user_text]
             /\ sent' = Event(c, "typing_indicator", Msg("typing", 1, NoQ),
                              Delivered(session_token))
             /\ websocket_connections' = send_message(session_token)
             /\ pc' = [pc EXCEPT ![c] = "respond"]
             /\ UNCHANGED <<db, call, create_pc, sock, ai_response>>

\* lines 130-144, up to the send of typing_indicator(true)
handle_user_text(c, session_token, text, limit) ==
    LET session == active_sessions[session_token]
        user_text == strip(text)
    IN  IF length(user_text) < MinTextLen
        THEN /\ sent' = Nothing("dropped_text")
             /\ UNCHANGED <<db, call, create_pc, active_sessions, websocket_connections,
                            sock, pc, user_input, ai_response>>
        ELSE /\ Cardinality(UserTurns(session.conversation_history)) < limit
             /\ active_sessions' = [active_sessions EXCEPT
                    ![session_token].conversation_history =
                        Append(@, Turn("user", user_text, NoEval))]
             /\ user_input' = [user_input EXCEPT ![c] = user_text]
             /\ sent' = Event(c, "typing_indicator", Msg("typing", 1, NoQ),
                              Delivered(session_token))
             /\ websocket_connections' = send_message(session_token)
             /\ pc' = [pc EXCEPT ![c] = "respond"]
             /\ UNCHANGED <<db, call, create_pc, sock, ai_response>>

HandleUserText(c, session_token, text, limit) ==
    /\ Receiving(c, session_token)
    /\ handle_user_text(c, session_token, text, limit)

\* lines 111-126: a transcription that is not empty is handled as a text
HandleUserAudio(c, session_token, transcribed_text, limit) ==
    /\ Receiving(c, session_token)
    /\ IF length(transcribed_text) > 0
       THEN handle_user_text(c, session_token, transcribed_text, limit)
       ELSE /\ sent' = Nothing("no_transcription")
            /\ UNCHANGED <<db, call, create_pc, active_sessions, websocket_connections,
                           sock, pc, user_input, ai_response>>

\* lines 146-150: the reply is generated and typing_indicator(false) is sent
Respond(c, session_token, fu, tr) ==
    /\ pc[c] = "respond"
    /\ session_token \in DOMAIN active_sessions
    /\ \E i \in fu, j \in tr :
          LET out == generate_ai_response(active_sessions[session_token],
                                          user_input[c], i, j)
          IN  /\ active_sessions' = [active_sessions EXCEPT ![session_token] = out.session]
              /\ ai_response' = [ai_response EXCEPT ![c] = out.response]
    /\ sent' = Event(c, "typing_indicator", Msg("typing", 0, NoQ),
                     Delivered(session_token))
    /\ websocket_connections' = send_message(session_token)
    /\ pc' = [pc EXCEPT ![c] = "deliver"]
    /\ UNCHANGED <<db, call, create_pc, sock, user_input>>

\* (mutant) the reply is sent without its content
DeliverBlank(c, session_token) ==
    /\ pc[c] = "deliver"
    /\ session_token \in DOMAIN active_sessions
    /\ sent' = Event(c, "ai_message", NoMsg, Delivered(session_token))
    /\ websocket_connections' = send_message(session_token)
    /\ pc' = [pc EXCEPT ![c] = "idle"]
    /\ user_input' = [user_input EXCEPT ![c] = NoText]
    /\ ai_response' = [ai_response EXCEPT ![c] = NoMsg]
    /\ UNCHANGED <<db, call, create_pc, active_sessions, sock>>

\* lines 152-153: the reply is sent
Deliver(c, session_token) ==
    /\ pc[c] = "deliver"
    /\ session_token \in DOMAIN active_sessions
    /\ sent' = Event(c, "ai_message", ai_response[c], Delivered(session_token))
    /\ websocket_connections' = send_message(session_token)
    /\ pc' = [pc EXCEPT ![c] = "idle"]
    /\ user_input' = [user_input EXCEPT ![c] = NoText]
    /\ ai_response' = [ai_response EXCEPT ![c] = NoMsg]
    /\ UNCHANGED <<db, call, create_pc, active_sessions, sock>>

----------------------------------------------------------------------------
(* The other message kinds of handle_message, lines 95-109 *)

\* lines 155-164
HandleConnectionReady(c, session_token) ==
    /\ Receiving(c, session_token)
    /\ active_sessions' = [active_sessions EXCEPT ![session_token].status = "active"]
    /\ sent' = Event(c, "session_status", Msg("active", 0, NoQ),
                     Delivered(session_token))
    /\ websocket_connections' = send_message(session_token)
    /\ UNCHANGED <<db, call, create_pc, sock, pc, user_input, ai_response>>

\* (mutant) the cursor is advanced outside the guard
ask_next_question_unguarded(session) ==
    LET current_question_index == session.current_question_index
        questions == session.questions
    IN  [session |-> [session EXCEPT !.current_question_index = @ + 1],
         response |-> IF current_question_index < Len(questions)
                      THEN Msg("question", 0, questions[current_question_index + 1])
                      ELSE Msg("covered_all", 0, NoQ)]

\* (mutant) the session is marked completed when no question is left
ask_next_question_completing(session) ==
    LET current_question_index == session.current_question_index
        questions == session.questions
    IN  IF current_question_index < Len(questions)
        THEN [session |-> [session EXCEPT !.current_question_index = @ + 1],
              response |-> Msg("question", 0, questions[current_question_index + 1])]
        ELSE [session |-> [session EXCEPT !.status = "completed"],
              response |-> Msg("covered_all", 0, NoQ)]

\* (mutant) the question is sent with a transition phrase, as the policy does
ask_next_question_with_transition(session) ==
    LET current_question_index == session.current_question_index
        questions == session.questions
    IN  IF current_question_index < Len(questions)
        THEN [session |-> [session EXCEPT !.current_question_index = @ + 1],
              response |-> Msg("transition", 1, questions[current_question_index + 1])]
        ELSE [session |-> session, response |-> Msg("covered_all", 0, NoQ)]

\* lines 287-301
ask_next_question(session) ==
    LET current_question_index == session.current_question_index
        questions == session.questions
    IN  IF current_question_index < Len(questions)
        THEN [session |-> [session EXCEPT !.current_question_index = @ + 1],
              response |-> Msg("question", 0, questions[current_question_index + 1])]
        ELSE [session |-> session, response |-> Msg("covered_all", 0, NoQ)]

AskNextQuestion(c, session_token) ==
    /\ Receiving(c, session_token)
    /\ LET out == ask_next_question(active_sessions[session_token])
       IN  /\ active_sessions' = [active_sessions EXCEPT ![session_token] = out.session]
           /\ sent' = Event(c, "ai_message", out.response, Delivered(session_token))
    /\ websocket_connections' = send_message(session_token)
    /\ UNCHANGED <<db, call, create_pc, sock, pc, user_input, ai_response>>

\* lines 334-335
end_interview(session) == [session EXCEPT !.status = "completed"]

\* lines 332-345: the session is completed, the feedback computed and sent
EndInterview(c, session_token) ==
    /\ Receiving(c, session_token)
    /\ LET session == end_interview(active_sessions[session_token])
       IN  /\ active_sessions' = [active_sessions EXCEPT ![session_token] = session]
           /\ \E feedback \in generate_final_feedback(session) :
                 sent' = Event(c, "interview_completed", feedback,
                               Delivered(session_token))
    /\ websocket_connections' = send_message(session_token)
    /\ UNCHANGED <<db, call, create_pc, sock, pc, user_input, ai_response>>

\* the message kinds that carry no data, and two kinds handle_message does
\* not know: an unknown type and a message without a type
MessageTypes ==
    {"connection_ready", "request_next_question", "end_interview", "ping", "none"}

\* (mutant) a message of unknown type is taken for connection_ready
HandleMessageDefaultReady(c, session_token, message_type) ==
    IF message_type = "request_next_question" THEN AskNextQuestion(c, session_token)
    ELSE IF message_type = "end_interview" THEN EndInterview(c, session_token)
    ELSE HandleConnectionReady(c, session_token)

\* lines 95-109: the dispatch on the type; no branch is taken for other types
HandleMessage(c, session_token, message_type) ==
    IF message_type = "connection_ready" THEN HandleConnectionReady(c, session_token)
    ELSE IF message_type = "request_next_question" THEN AskNextQuestion(c, session_token)
    ELSE IF message_type = "end_interview" THEN EndInterview(c, session_token)
    ELSE /\ Receiving(c, session_token)
         /\ sent' = Nothing("unknown_type")
         /\ UNCHANGED <<db, call, create_pc, active_sessions, websocket_connections,
                        sock, pc, user_input, ai_response>>

\* the tokens a request can carry: those of the store and one that was never
\* issued
RequestTokens == Tokens \cup {"tok0"}
NotFound == Event("http", "not_found", Msg("session_not_found", 0, NoQ), FALSE)

\* POST /realtime/end/{session_token}, api/realtime_interview.py lines 108-122
EndHttp(session_token) ==
    IF session_token \in DOMAIN active_sessions
    THEN /\ session_token \in KnownTokens
         /\ LET session == end_interview(active_sessions[session_token])
            IN  /\ active_sessions' =
                      [active_sessions EXCEPT ![session_token] = session]
                /\ \E feedback \in generate_final_feedback(session) :
                      sent' = Event("http", "interview_completed", feedback,
                                    Delivered(session_token))
         /\ websocket_connections' = send_message(session_token)
         /\ UNCHANGED <<db, call, create_pc, sock, pc, user_input, ai_response>>
    ELSE /\ sent' = NotFound
         /\ UNCHANGED <<db, call, create_pc, active_sessions, websocket_connections,
                        sock, pc, user_input, ai_response>>

\* GET /realtime/session/{session_token}, api/realtime_interview.py lines 87-105
GetStatus(session_token) ==
    /\ IF session_token \in DOMAIN active_sessions
       THEN /\ session_token \in KnownTokens
            /\ LET session == active_sessions[session_token]
               IN  sent' = Event("http", "status",
                       [status |-> session.status,
                        current_question_index |-> session.current_question_index,
                        total_questions |-> Len(session.questions),
                        conversation_length |-> Len(session.conversation_history)],
                       FALSE)
       ELSE sent' = NotFound
    /\ UNCHANGED <<db, call, create_pc, active_sessions, websocket_connections,
                   sock, pc, user_input, ai_response>>

----------------------------------------------------------------------------
(* Calls of the AI service from outside the real-time manager *)

\* no call; a call holds the name of the function, its arguments and, once it
\* has returned, its result
NoCall == [fn |-> "none", args |-> <<>>, result |-> <<>>]
Call(fn, args) == [fn |-> fn, args |-> args, result |-> <<>>]

\* interview_service.py lines 216-222
GenerateInterviewQuestions ==
    /\ call.fn = "generate_questions"
    /\ call.result = <<>>
    /\ call' = [call EXCEPT !.result =
                   << generate_questions(call.args[1], call.args[2], call.args[3]) >>]
    /\ UNCHANGED <<create_pc, active_sessions, websocket_connections, sock, pc,
                   user_input, ai_response, sent, db>>

\* interview_service.py lines 225-231
EvaluateAnswer ==
    /\ call.fn = "evaluate_answer"
    /\ call.result = <<>>
    /\ call' = [call EXCEPT !.result =
                   << evaluate_answer(call.args[1], call.args[2], call.args[3]) >>]
    /\ UNCHANGED <<create_pc, active_sessions, websocket_connections, sock, pc,
                   user_input, ai_response, sent, db>>

\* the turn-based session table before any session is created
NoRows == [status |-> "none"]

----------------------------------------------------------------------------
(* Turn-based sessions: api/interview.py.  db holds what is committed. *)

Returned(fn, args, code) == [fn |-> fn, args |-> args, result |-> <<code>>]
NoFeedback == [kind |-> "none"]
FeedbackOutcomes == {"ok", "raises"}

RECURSIVE sum_of(_, _)
sum_of(scores, ids) ==
    IF ids = {} THEN 0
    ELSE LET q == CHOOSE x \in ids : TRUE
         IN  scores[q] + sum_of(scores, ids \ {q})

\* interview_service.py lines 234-296, generate_final_feedback(questions):
\* scores maps the answered questions to their scores
generate_final_feedback_of(scores, total_questions) ==
    IF DOMAIN scores = {}
    THEN [overall_score |-> 0, summary |-> "no_questions_answered"]
    ELSE LET overall_score == round_tenths(sum_of(scores, DOMAIN scores),
                                           Cardinality(DOMAIN scores))
         IN  [overall_score |-> overall_score,
              performance_level |->
                  IF overall_score >= 80 THEN "Excellent"
                  ELSE IF overall_score >= 60 THEN "Good"
                  ELSE IF overall_score >= 40 THEN "Fair"
                  ELSE "Needs Improvement",
              questions_answered |-> Cardinality(DOMAIN scores),
              total_questions |-> total_questions]

\* POST /sessions, lines 26-124
CreateInterviewSession ==
    /\ db.status = "none"
    /\ db' = [status |-> "active",
              total_questions |->
                  Len(generate_questions("general", NoResume, TurnBasedQuestions)),
              questions_answered |-> 0,
              scores |-> EmptyMap,
              feedback |-> NoFeedback]
    /\ call' = Returned("create_interview_session", <<"general">>, 200)
    /\ UNCHANGED <<create_pc, active_sessions, websocket_connections, sock, pc,
                   user_input, ai_response, sent>>

\* POST /sessions/{id}/answer, lines 229-320.  Everything from the
\* evaluation to db.commit() is inside one try: when generate_final_feedback
\* raises, the handler answers 500 and nothing of the request is committed.
SubmitAnswer(question_id, answer) ==
    /\ db.status # "none"
    /\ IF db.status # "active"
       THEN /\ call' = Returned("submit_answer", <<question_id, answer, "ok">>, 404)
            /\ db' = db
       ELSE IF question_id \in DOMAIN db.scores
       THEN /\ call' = Returned("submit_answer", <<question_id, answer, "ok">>, 400)
            /\ db' = db
       ELSE LET evaluation == evaluate_answer(<<"general", question_id>>, answer, "general")
                scores == MapPut(db.scores, question_id, evaluation.score)
                questions_answered == db.questions_answered + 1
            IN  IF questions_answered >= db.total_questions
                THEN \E outcome \in FeedbackOutcomes :
                        IF outcome = "ok"
                        THEN /\ db' = [db EXCEPT
                                  !.scores = scores,
                                  !.questions_answered = questions_answered,
                                  !.status = "completed",
                                  !.feedback = generate_final_feedback_of(
                                                   scores, db.total_questions)]
                             /\ call' = Returned("submit_answer",
                                            <<question_id, answer, outcome>>, 200)
                        ELSE /\ db' = db
                             /\ call' = Returned("submit_answer",
                                            <<question_id, answer, outcome>>, 500)
                ELSE /\ db' = [db EXCEPT !.scores = scores,
                                         !.questions_answered = questions_answered]
                     /\ call' = Returned("submit_answer",
                                    <<question_id, answer, "ok">>, 200)
    /\ UNCHANGED <<create_pc, active_sessions, websocket_connections, sock, pc,
                   user_input, ai_response, sent>>

\* POST /sessions/{id}/complete, lines 323-364: the feedback is generated for
\* the answered questions inside its own try, an error object is stored when
\* it raises
CompleteInterviewSession ==
    /\ db.status # "none"
    /\ IF db.status # "active"
       THEN /\ call' = Returned("complete_interview_session", <<"ok">>, 404)
            /\ db' = db
       ELSE IF DOMAIN db.scores = {}
       THEN /\ db' = [db EXCEPT !.status = "completed"]
            /\ call' = Returned("complete_interview_session", <<"ok">>, 200)
       ELSE \E outcome \in FeedbackOutcomes :
               /\ db' = [db EXCEPT
                     !.status = "completed",
                     !.feedback =
                         IF outcome = "ok"
                         THEN generate_final_feedback_of(
                                  db.scores, Cardinality(DOMAIN db.scores))
                         ELSE [error |-> "failed_to_generate_feedback"]]
               /\ call' = Returned("complete_interview_session", <<outcome>>, 200)
    /\ UNCHANGED <<create_pc, active_sessions, websocket_connections, sock, pc,
                   user_input, ai_response, sent>>

----------------------------------------------------------------------------
(* end_interview when generate_final_feedback raises *)

FeedbackFailed(by) == Event(by, "none", Msg("feedback_failed", 0, NoQ), FALSE)

\* realtime_interview_service.py lines 332-339 and 88-93: the status is
\* written, the exception leaves handle_message and the message loop, is
\* printed, and the finally block drops the token's entry; the endpoint
\* returns and the socket is closed
EndInterviewFails(c, session_token) ==
    /\ Receiving(c, session_token)
    /\ active_sessions' = [active_sessions EXCEPT
                              ![session_token] = end_interview(@)]
    /\ websocket_connections' = MapDel(websocket_connections, session_token)
    /\ pc' = [pc EXCEPT ![c] = "exited"]
    /\ sock' = [sock EXCEPT ![c] = "closed"]
    /\ sent' = FeedbackFailed(c)
    /\ UNCHANGED <<db, call, create_pc, user_input, ai_response>>

\* api/realtime_interview.py lines 108-122: nothing catches the exception,
\* the request is answered with a server error
EndHttpFails(session_token) ==
    /\ session_token \in DOMAIN active_sessions
    /\ session_token \in KnownTokens
    /\ active_sessions' = [active_sessions EXCEPT
                              ![session_token] = end_interview(@)]
    /\ sent' = FeedbackFailed("http")
    /\ UNCHANGED <<db, call, create_pc, websocket_connections, sock, pc,
                   user_input, ai_response>>

----------------------------------------------------------------------------
(* Specification: every interleaving of two connections and the HTTP calls *)

Init ==
    /\ create_pc = "idle"
    /\ active_sessions = EmptyMap
    /\ websocket_connections = EmptyMap
    /\ sock = [c \in Conns |-> "unused"]
    /\ pc = [c \in Conns |-> "off"]
    /\ user_input = [c \in Conns |-> NoText]
    /\ ai_response = [c \in Conns |-> NoMsg]
    /\ sent = NoEvent
    /\ db = NoRows
    /\ call = NoCall

Dialogue(cs, texts, fu, tr, limit) ==
    \/ \E c \in cs, t \in Tokens, text \in texts : HandleUserText(c, t, text, limit)
    \/ \E c \in cs, t \in Tokens, text \in texts : HandleUserAudio(c, t, text, limit)
    \/ \E c \in cs, t \in Tokens : Respond(c, t, fu, tr)
    \/ \E c \in cs, t \in Tokens : Deliver(c, t)
    \/ \E c \in cs, t \in Tokens : HandleConnectionReady(c, t)
    \/ \E c \in cs, t \in Tokens : AskNextQuestion(c, t)
    \/ \E c \in cs, t \in Tokens : EndInterview(c, t)
    \/ \E t \in Tokens : EndHttp(t)

\* one client on one connection
Next ==
    \/ \E r \in SessionRequests : CreateSession(r[1], r[2])
    \/ FinishCreate
    \/ \E t \in Tokens : Connect("ws1", t)
    \/ Dialogue({"ws1"}, UserTexts, FollowUpDraws, TransitionDraws, MaxUserTurns)

Spec == Init /\ [][Next]_vars

\* two connections on one token, the HTTP end call, and clients that go away
RaceTexts == { Text(1, 50, {}), Text(0, 250, {"maybe", "example"}), Text(2, 3, {}) }
NextRace ==
    \/ CreateSession("general", NoResume)
    \/ FinishCreate
    \/ \E c \in Conns, t \in Tokens : Connect(c, t)
    \/ \E c \in Conns : Disconnect(c)
    \/ \E c \in Conns, t \in Tokens : HandlerExit(c, t)
    \/ Dialogue(Conns, RaceTexts, {1}, {1}, MaxUserTurns)

SpecRace == Init /\ [][NextRace]_vars

\* one client and the follow-up heuristic on texts around its thresholds
PolicyTexts ==
    { Text(0, 50, {}),
      Text(0, 99, {"situation", "task", "action", "result"}),
      Text(0, 100, {}),
      Text(0, 150, {"maybe"}),
      Text(0, 150, {"result"}),
      Text(0, 150, {"situation", "task"}),
      Text(0, 199, {"not sure", "action", "result"}),
      Text(0, 200, {"kind of"}),
      Text(0, 250, {}) }
NextPolicy ==
    \/ \E r \in SessionRequests : CreateSession(r[1], r[2])
    \/ FinishCreate
    \/ \E t \in Tokens : Connect("ws1", t)
    \/ \E t \in Tokens, text \in PolicyTexts :
          HandleUserText("ws1", t, text, MaxUserTurns)
    \/ \E t \in Tokens : Respond("ws1", t, {1}, {1})
    \/ \E t \in Tokens : Deliver("ws1", t)
    \/ \E t \in Tokens : AskNextQuestion("ws1", t)

SpecPolicy == Init /\ [][NextPolicy]_vars

\* one client who answers every question, for as long as the interview lasts
DeepTexts == { Text(0, 50, {}), Text(0, 250, {"example"}) }
NextDeep ==
    \/ CreateSession("general", NoResume)
    \/ FinishCreate
    \/ \E t \in Tokens : Connect("ws1", t)
    \/ \E t \in Tokens, text \in DeepTexts :
          HandleUserText("ws1", t, text, DeepUserTurns)
    \/ \E t \in Tokens : Respond("ws1", t, {1}, {1})
    \/ \E t \in Tokens : Deliver("ws1", t)

SpecDeep == Init /\ [][NextDeep]_vars

\* one client whose answers are evaluated and who ends the interview, on the
\* connection or through the HTTP end call
FeedbackTexts ==
    { Text(0, 50, {}),
      Text(0, 50, {"situation", "api"}),
      Text(0, 250, {"example", "result", "optimize"}),
      Text(2, 3, {}) }
NextFeedback ==
    \/ \E r \in SessionRequests : CreateSession(r[1], r[2])
    \/ FinishCreate
    \/ \E t \in Tokens : Connect("ws1", t)
    \/ \E t \in Tokens, text \in FeedbackTexts :
          HandleUserText("ws1", t, text, FeedbackUserTurns)
    \/ \E t \in Tokens : Respond("ws1", t, {1}, {1})
    \/ \E t \in Tokens : Deliver("ws1", t)
    \/ \E t \in Tokens : EndInterview("ws1", t)
    \/ \E t \in Tokens : EndHttp(t)

SpecFeedback == Init /\ [][NextFeedback]_vars

\* two clients of one token whose answers are in flight at the same time,
\* and the HTTP end call
SerialTexts == { Text(0, 50, {}), Text(0, 250, {"example"}) }
NextSerial ==
    \/ CreateSession("general", NoResume)
    \/ FinishCreate
    \/ \E c \in Conns, t \in Tokens : Connect(c, t)
    \/ \E c \in Conns, t \in Tokens, text \in SerialTexts :
          HandleUserText(c, t, text, SerialUserTurns)
    \/ \E c \in Conns, t \in Tokens : Respond(c, t, {1}, {1})
    \/ \E c \in Conns, t \in Tokens : Deliver(c, t)
    \/ \E t \in Tokens : EndHttp(t)

SpecSerial == Init /\ [][NextSerial]_vars

\* one client who also sends what the handlers drop or do not know
IgnoreTexts ==
    { Text(0, 0, {}), Text(2, 0, {}), Text(2, 3, {}), Text(0, 4, {}),
      Text(1, 5, {}), Text(0, 50, {}) }
NextIgnore ==
    \/ CreateSession("general", NoResume)
    \/ FinishCreate
    \/ \E t \in Tokens : Connect("ws1", t)
    \/ \E t \in Tokens, text \in IgnoreTexts :
          HandleUserText("ws1", t, text, MaxUserTurns)
    \/ \E t \in Tokens, text \in IgnoreTexts :
          HandleUserAudio("ws1", t, text, MaxUserTurns)
    \/ \E t \in Tokens : Respond("ws1", t, {1}, {1})
    \/ \E t \in Tokens : Deliver("ws1", t)
    \/ \E t \in Tokens, message_type \in MessageTypes :
          HandleMessage("ws1", t, message_type)

SpecIgnore == Init /\ [][NextIgnore]_vars

\* requests that carry a token the store does not hold, next to a client
\* with a good one
GateTexts == { Text(0, 50, {}) }
NextGate ==
    \/ CreateSession("general", NoResume)
    \/ FinishCreate
    \/ \E c \in Conns, t \in Tokens : Connect(c, t)
    \/ \E c \in Conns, t \in RequestTokens : RejectConnect(c, t)
    \/ \E t \in RequestTokens : GetStatus(t)
    \/ \E t \in RequestTokens : EndHttp(t)
    \/ \E c \in Conns, t \in Tokens, text \in GateTexts :
          HandleUserText(c, t, text, MaxUserTurns)
    \/ \E c \in Conns, t \in Tokens : Respond(c, t, {1}, {1})
    \/ \E c \in Conns, t \in Tokens : Deliver(c, t)
    \/ \E c \in Conns, t \in Tokens : AskNextQuestion(c, t)

SpecGate == Init /\ [][NextGate]_vars

----------------------------------------------------------------------------
(* Specifications of the AI service called on its own *)

\* the state of a process that runs no real-time session
NoRealtime ==
    /\ create_pc = "idle"
    /\ active_sessions = EmptyMap
    /\ websocket_connections = EmptyMap
    /\ sock = [c \in Conns |-> "unused"]
    /\ pc = [c \in Conns |-> "off"]
    /\ user_input = [c \in Conns |-> NoText]
    /\ ai_response = [c \in Conns |-> NoMsg]
    /\ sent = NoEvent

\* generate_questions: the categories with a pool, one without; resumes
\* around the length test of line 63, with and without trigger words
QuestionTypes == SessionTypes \cup {"other"}
Resumes ==
    { NoResume, Text(0, 150, {}), Text(0, 100, {"python"}), Text(1, 100, {"python"}),
      Text(0, 150, {"python", "api"}),
      Text(0, 101, {"python", "javascript", "sql", "api"}),
      Text(0, 150, {"manager", "remote", "internship"}),
      Text(0, 150, {"volunteer", "startup", "react"}) }
InitQuestions ==
    /\ NoRealtime
    /\ db = NoRows
    /\ \E session_type \in QuestionTypes, resume_text \in Resumes,
          num_questions \in 1..MaxCount :
          call = Call("generate_questions", <<session_type, resume_text, num_questions>>)
NextQuestions == GenerateInterviewQuestions
SpecQuestions == InitQuestions /\ [][NextQuestions]_vars

\* evaluate_answer: answers on both sides of each length step, with and
\* without surrounding whitespace, with and without keywords
AnswerLengths == {10, 19, 20, 99, 100, 250, 299, 300}
AnswerWords ==
    { {}, {"optimize"}, {"result"}, {"optimize", "result", "example", "um"} }
Answers == { Text(pad, len, words) : pad \in {0, 2}, len \in AnswerLengths,
                                     words \in AnswerWords }
InitEvaluate ==
    /\ NoRealtime
    /\ db = NoRows
    /\ \E answer \in Answers, question_type \in SessionTypes :
          call = Call("evaluate_answer", << <<question_type, 1>>, answer, question_type >>)
NextEvaluate == EvaluateAnswer
SpecEvaluate == InitEvaluate /\ [][NextEvaluate]_vars

\* the paths that complete a session, each with a feedback generation that
\* succeeds or raises: one real-time session with one client, one
\* turn-based session
TurnBasedAnswers == { Text(0, 250, {}) }
QuestionIds == 1..TurnBasedQuestions
NextFailure ==
    \/ CreateSession("general", NoResume)
    \/ FinishCreate
    \/ \E t \in Tokens : Connect("ws1", t)
    \/ \E t \in Tokens : EndInterview("ws1", t)
    \/ \E t \in Tokens : EndInterviewFails("ws1", t)
    \/ \E t \in Tokens : EndHttpFails(t)
    \/ CreateInterviewSession
    \/ \E question_id \in QuestionIds, answer \in TurnBasedAnswers :
          SubmitAnswer(question_id, answer)
    \/ CompleteInterviewSession

SpecFailure == Init /\ [][NextFailure]_vars

\* one client that answers every question at length and asks for the next
\* one, and nobody who ends the interview.  A handler that was started goes
\* on: the event loop resumes a task once its send has completed.
LiveTexts == { Text(0, 250, {"example"}) }
NextLive ==
    \/ CreateSession("general", NoResume)
    \/ FinishCreate
    \/ \E t \in Tokens : Connect("ws1", t)
    \/ \E t \in Tokens : HandleConnectionReady("ws1", t)
    \/ \E t \in Tokens : AskNextQuestion("ws1", t)
    \/ \E t \in Tokens, text \in LiveTexts :
          HandleUserText("ws1", t, text, DeepUserTurns)
    \/ \E t \in Tokens : Respond("ws1", t, {1}, {1})
    \/ \E t \in Tokens : Deliver("ws1", t)

LiveFairness ==
    /\ WF_vars(\E t \in Tokens : Respond("ws1", t, {1}, {1}))
    /\ WF_vars(\E t \in Tokens : Deliver("ws1", t))
SpecLive == Init /\ [][NextLive]_vars /\ LiveFairness

----------------------------------------------------------------------------
(* Properties *)

Cursor(t) == active_sessions[t].current_question_index
Questions(t) == active_sessions[t].questions
History(t) == active_sessions[t].conversation_history
Status(t) == active_sessions[t].status

\* the steps of handle_user_text, told by the position of the task
Accepts(c) == pc[c] = "idle" /\ pc'[c] = "respond"
Responds(c) == pc[c] = "respond" /\ pc'[c] = "deliver"
Delivers(c) == pc[c] = "deliver" /\ pc'[c] = "idle"

\* C1: whatever messages arrive, on one connection or interleaved from two
\* connections of the same token, the cursor of a session never decreases from
\* one state to the next and never exceeds the number of its questions.
C1_CursorMonotoneBounded ==
    [][\A t \in DOMAIN active_sessions' :
          /\ active_sessions'[t].current_question_index
                <= Len(active_sessions'[t].questions)
          /\ t \in DOMAIN active_sessions =>
                active_sessions'[t].current_question_index >= Cursor(t)]_vars

\* C1 witness: both connections are inside handle_user_text with the cursor at
\* the end of the questions
C1_Witness ==
    \E t \in DOMAIN active_sessions :
       /\ Cursor(t) = NumQuestions
       /\ Len(Questions(t)) = NumQuestions
       /\ pc["ws1"] = "deliver"
       /\ pc["ws2"] = "respond"

\* C2: once the status of a session is completed it stays completed, whatever
\* message or HTTP end call follows.
C2_CompletedIsTerminal ==
    [][\A t \in DOMAIN active_sessions :
          Status(t) = "completed" =>
             /\ t \in DOMAIN active_sessions'
             /\ active_sessions'[t].status = "completed"]_vars

\* C3 (as claimed): a stored session has status created, ready, active or
\* completed, and is ready only once its questions are filled.
C3_StatusIsCreatedReadyActiveCompleted ==
    \A t \in DOMAIN active_sessions :
       /\ Status(t) \in {"created", "ready", "active", "completed"}
       /\ Status(t) = "ready" => Len(Questions(t)) > 0

\* C3 (amended): a stored session has status waiting_for_connection, ready,
\* active or completed; it is waiting_for_connection exactly while
\* create_session has not yet stored its questions, and has its questions
\* in every other status.
C3_StatusValues ==
    \A t \in DOMAIN active_sessions :
       /\ Status(t) \in {"waiting_for_connection", "ready", "active", "completed"}
       /\ Status(t) = "waiting_for_connection" <=> create_pc = "generating"
       /\ Status(t) = "waiting_for_connection" <=> Questions(t) = <<>>
       /\ Status(t) # "waiting_for_connection" => Len(Questions(t)) = NumQuestions

\* C3 witness: create_session has stored the session and not yet its questions
C3_Witness ==
    \E t \in DOMAIN active_sessions :
       /\ create_pc = "generating"
       /\ Status(t) = "waiting_for_connection"
       /\ Questions(t) = <<>>

\* C4 (as claimed): for an accepted user_text the handler sends
\* typing_indicator(true), then the ai_message, then typing_indicator(false).
C4_MessageBeforeTypingOff ==
    [][\A c \in Conns :
          /\ Accepts(c) => /\ sent'.type = "typing_indicator"
                           /\ sent'.msg.n = 1
          /\ Responds(c) => sent'.type = "ai_message"
          /\ Delivers(c) => /\ sent'.type = "typing_indicator"
                            /\ sent'.msg.n = 0]_vars

\* C4 (amended): for an accepted user_text the handler sends
\* typing_indicator(true), then typing_indicator(false), then the ai_message
\* that carries the generated reply: the ai_message is the last of the three.
C4_TypingOffBeforeMessage ==
    [][\A c \in Conns :
          /\ Accepts(c) => sent' = Event(c, "typing_indicator", Msg("typing", 1, NoQ),
                                         sent'.delivered)
          /\ Responds(c) => /\ sent' = Event(c, "typing_indicator",
                                             Msg("typing", 0, NoQ), sent'.delivered)
                            /\ ai_response'[c] # NoMsg
          /\ Delivers(c) => sent' = Event(c, "ai_message", ai_response[c],
                                          sent'.delivered)]_vars

\* C4 witness: the reply of a turn has just been sent to the client, after both
\* typing indicators
C4_Witness ==
    \E t \in DOMAIN active_sessions :
       /\ pc["ws1"] = "idle"
       /\ sent.by = "ws1"
       /\ sent.type = "ai_message"
       /\ sent.delivered
       /\ Len(History(t)) > 0
       /\ Last(History(t)).role = "assistant"
       /\ Last(History(t)).content = sent.msg

\* the number of user turns the policy counts
ConversationLength(t) == Cardinality(UserTurns(History(t)))

\* the follow-up rule as the specification words it
FollowUpRule(text, session_type) ==
    /\ length(text) < 200
    /\ \/ length(text) < 100
       \/ \E w \in {"kind of", "sort of", "maybe", "probably", "i guess", "not sure"} :
             w \in text.words
       \/ /\ session_type = "behavioral"
          /\ Cardinality({w \in {"situation", "task", "action", "result"} :
                             w \in text.words}) < 2

\* C5: on a user turn after the first, while prepared questions remain, the
\* reply is a follow-up (cursor unchanged) or the next question behind a
\* transition (cursor advanced by one), never the closing prompt.
C5_NoClosingWhileQuestionsRemain ==
    [][\A c \in Conns, t \in DOMAIN active_sessions :
          (Responds(c) /\ ConversationLength(t) > 1
                       /\ Cursor(t) < Len(Questions(t))) =>
             \/ /\ ai_response'[c].kind = "followup"
                /\ active_sessions'[t].current_question_index = Cursor(t)
             \/ /\ ai_response'[c].kind = "transition"
                /\ ai_response'[c].q = Questions(t)[Cursor(t) + 1]
                /\ active_sessions'[t].current_question_index = Cursor(t) + 1]_vars

\* C6: where the follow-up heuristic is consulted (a user turn after the first,
\* not beyond the number of questions), a follow-up is asked and the cursor is
\* left alone if and only if the answer is shorter than 200 characters and a
\* trigger holds (shorter than 100; a vagueness marker; behavioral with fewer
\* than 2 of the STAR words).
C6_FollowUpDecision ==
    [][\A c \in Conns, t \in DOMAIN active_sessions :
          (Responds(c) /\ ConversationLength(t) > 1
                       /\ ConversationLength(t) <= Len(Questions(t))) =>
             /\ ai_response'[c].kind = "followup"
                   <=> FollowUpRule(user_input[c], active_sessions[t].session_type)
             /\ ai_response'[c].kind = "followup"
                   => active_sessions'[t].current_question_index = Cursor(t)
             /\ ai_response'[c].kind # "followup"
                   => \/ Cursor(t) = Len(Questions(t))
                      \/ active_sessions'[t].current_question_index = Cursor(t) + 1]_vars

\* C6 witness: a behavioral answer of 50 characters without any STAR word got
\* a follow-up and the cursor stayed where the introduction had left it
C6_Witness ==
    \E t \in DOMAIN active_sessions :
       /\ active_sessions[t].session_type = "behavioral"
       /\ pc["ws1"] = "deliver"
       /\ user_input["ws1"] = Text(0, 50, {})
       /\ ai_response["ws1"].kind = "followup"
       /\ Len(History(t)) = 4
       /\ History(t)[2].content.kind = "introduction"
       /\ Cursor(t) = 1

\* C7 (as claimed): the policy run on the only user turn of a history appends
\* one assistant turn that holds questions[c], advances the cursor from c to
\* c + 1, and attaches no evaluation to the user turn.
C7_FirstTurnAsksQuestion ==
    [][\A c \in Conns, t \in DOMAIN active_sessions :
          (Responds(c) /\ ConversationLength(t) = 1) =>
             /\ Cursor(t) < Len(Questions(t))
             /\ ai_response'[c].q = Questions(t)[Cursor(t) + 1]
             /\ active_sessions'[t].current_question_index = Cursor(t) + 1
             /\ active_sessions'[t].conversation_history =
                   Append(History(t), Turn("assistant", ai_response'[c], NoEval))
             /\ \A k \in UserTurns(History(t)) :
                   active_sessions'[t].conversation_history[k].evaluation = NoEval]_vars

\* C7 (amended): the policy run on the only user turn of a history appends one
\* assistant turn and attaches no evaluation; when c < len(questions) the turn
\* acknowledges the introduction and holds questions[c], and the cursor becomes
\* c + 1; when c = len(questions) (every question was already requested) it is
\* the plain acknowledgement and the cursor stays at c.
C7_FirstTurn ==
    [][\A c \in Conns, t \in DOMAIN active_sessions :
          (Responds(c) /\ ConversationLength(t) = 1) =>
             /\ active_sessions'[t].conversation_history =
                   Append(History(t), Turn("assistant", ai_response'[c], NoEval))
             /\ \A k \in UserTurns(History(t)) :
                   active_sessions'[t].conversation_history[k].evaluation = NoEval
             /\ IF Cursor(t) < Len(Questions(t))
                THEN /\ ai_response'[c] =
                           Msg("introduction", 0, Questions(t)[Cursor(t) + 1])
                     /\ active_sessions'[t].current_question_index = Cursor(t) + 1
                ELSE /\ Cursor(t) = Len(Questions(t))
                     /\ ai_response'[c] = Msg("dive_in", 0, NoQ)
                     /\ active_sessions'[t].current_question_index = Cursor(t)]_vars

\* C7 witness: the first user turn was answered with the third question, two
\* questions having been requested before it
C7_Witness ==
    \E t \in DOMAIN active_sessions :
       /\ pc["ws1"] = "deliver"
       /\ Len(History(t)) = 2
       /\ History(t)[1].role = "user"
       /\ History(t)[1].evaluation = NoEval
       /\ History(t)[2] = Turn("assistant",
                               Msg("introduction", 0, Questions(t)[3]), NoEval)
       /\ ai_response["ws1"] = History(t)[2].content
       /\ Cursor(t) = 3

\* C8 (as claimed): on a user turn after the first with the cursor at the end
\* of the questions the reply is a closing prompt, the cursor stays and the
\* status is not touched.
C8_ClosingWhenExhausted ==
    [][\A c \in Conns, t \in DOMAIN active_sessions :
          (Responds(c) /\ ConversationLength(t) > 1
                       /\ Cursor(t) = Len(Questions(t))) =>
             /\ ai_response'[c].kind \in {"all_prepared", "concludes"}
             /\ active_sessions'[t].current_question_index = Cursor(t)
             /\ active_sessions'[t].status = Status(t)]_vars

\* C8 (amended): on a user turn after the first with the cursor at the end of
\* the questions the cursor stays and the status is not touched; the reply is
\* a follow-up when the follow-up rule holds of the answer and the user turns
\* do not outnumber the questions, and a closing prompt otherwise.
C8_ClosingOrFollowUpWhenExhausted ==
    [][\A c \in Conns, t \in DOMAIN active_sessions :
          (Responds(c) /\ ConversationLength(t) > 1
                       /\ Cursor(t) = Len(Questions(t))) =>
             /\ active_sessions'[t].current_question_index = Cursor(t)
             /\ active_sessions'[t].status = Status(t)
             /\ IF /\ FollowUpRule(user_input[c], active_sessions[t].session_type)
                   /\ ConversationLength(t) <= Len(Questions(t))
                THEN ai_response'[c].kind = "followup"
                ELSE ai_response'[c].kind \in {"all_prepared", "concludes"}]_vars

\* C8 witness: with every question requested, the second user turn got the
\* closing prompt
C8_Witness ==
    \E t \in DOMAIN active_sessions :
       /\ pc["ws1"] = "deliver"
       /\ Cursor(t) = Len(Questions(t))
       /\ Len(History(t)) = 4
       /\ ai_response["ws1"].kind = "all_prepared"
       /\ Last(History(t)).content = ai_response["ws1"]
       /\ Status(t) # "completed"

\* C9: request_next_question with the cursor at the end of the questions sends
\* the same wrap-up ai_message every time and leaves the session (cursor,
\* history, status) as it was.
C9_NextQuestionIdempotentAtEnd ==
    [][\A c \in Conns, t \in DOMAIN active_sessions :
          (AskNextQuestion(c, t) /\ Cursor(t) = Len(Questions(t))) =>
             /\ sent' = Event(c, "ai_message", Msg("covered_all", 0, NoQ),
                              sent'.delivered)
             /\ active_sessions' = active_sessions
             /\ pc' = pc]_vars

\* C9 witness: the wrap-up line has just been sent with the cursor at the end
C9_Witness ==
    \E t \in DOMAIN active_sessions :
       /\ Cursor(t) = Len(Questions(t))
       /\ Len(Questions(t)) = NumQuestions
       /\ sent = Event("ws1", "ai_message", Msg("covered_all", 0, NoQ), TRUE)
       /\ pc["ws1"] = "idle"

\* C10: request_next_question with questions left sends one ai_message whose
\* content is questions[cursor], bare, and advances the cursor by one; no
\* typing indicator is sent, nothing is evaluated or appended.
C10_NextQuestion ==
    [][\A c \in Conns, t \in DOMAIN active_sessions :
          (AskNextQuestion(c, t) /\ Cursor(t) < Len(Questions(t))) =>
             /\ sent' = Event(c, "ai_message",
                              Msg("question", 0, Questions(t)[Cursor(t) + 1]),
                              sent'.delivered)
             /\ active_sessions'[t] =
                   [active_sessions[t] EXCEPT !.current_question_index = @ + 1]
             /\ pc' = pc]_vars

\* C10 witness: the fourth question was sent on request
C10_Witness ==
    \E t \in DOMAIN active_sessions :
       /\ Cursor(t) = 4
       /\ sent = Event("ws1", "ai_message", Msg("question", 0, Questions(t)[4]), TRUE)
       /\ pc["ws1"] = "idle"
       /\ History(t) = <<>>

\* an interview is ended, by the end_interview message or the HTTP end call
Ends(t) == EndHttp(t) \/ \E c \in Conns : EndInterview(c, t)
\* the user turns of a history that carry an evaluation
EvaluatedTurns(history) == {k \in UserTurns(history) : history[k].evaluation # NoEval}
RECURSIVE ScoreSum(_, _)
ScoreSum(history, turns) ==
    IF turns = {} THEN 0
    ELSE LET k == CHOOSE k \in turns : TRUE
         IN  history[k].evaluation.score + ScoreSum(history, turns \ {k})
Entries(history, turns, field) ==
    UNION {{history[k].evaluation[field][n] :
               n \in 1..Len(history[k].evaluation[field])} : k \in turns}

\* C11: ending an interview, in any state of the session and after any
\* history, sets the status to completed and sends one interview_completed
\* event whose feedback has an overall_score from 0 to 10 (scores are in
\* tenths): 0 without user turns, the default 5.0 without evaluations.
C11_EndCompletesWithFeedback ==
    [][\A t \in DOMAIN active_sessions :
          Ends(t) =>
             /\ active_sessions'[t].status = "completed"
             /\ sent'.type = "interview_completed"
             /\ sent'.delivered = Delivered(t)
             /\ sent'.msg.overall_score \in 0..100
             /\ UserTurns(History(t)) = {} => sent'.msg.overall_score = 0
             /\ (UserTurns(History(t)) # {} /\ EvaluatedTurns(History(t)) = {})
                   => sent'.msg.overall_score = 50]_vars

\* C11 witness: an interview with three answers, two of them evaluated, was
\* ended and its feedback delivered with a score above the default
C11_Witness ==
    \E t \in DOMAIN active_sessions :
       /\ Status(t) = "completed"
       /\ sent.type = "interview_completed"
       /\ sent.delivered
       /\ Cardinality(EvaluatedTurns(History(t))) = 2
       /\ sent.msg.overall_score \in 51..100

\* C12 (as claimed): the overall_score is the average of the scores of the
\* evaluations attached to user turns, and strengths and improvements are the
\* unions of the per-turn lists, without duplicates and with at most 5 entries.
C12_ScoreIsAverage ==
    [][\A t \in DOMAIN active_sessions :
          (Ends(t) /\ EvaluatedTurns(History(t)) # {}) =>
             LET turns == EvaluatedTurns(History(t))
             IN  /\ sent'.msg.overall_score * Cardinality(turns)
                       = ScoreSum(History(t), turns)
                 /\ sent'.msg.strengths = Entries(History(t), turns, "strengths")
                 /\ sent'.msg.improvements = Entries(History(t), turns, "improvements")
                 /\ Cardinality(sent'.msg.strengths) <= 5
                 /\ Cardinality(sent'.msg.improvements) <= 5]_vars

\* C12 (amended): the overall_score is the average of the scores of the
\* evaluations attached to user turns rounded to one decimal, an exact half
\* going to the even decimal; strengths and improvements hold each entry of
\* the per-turn lists once, all of them up to 5 and otherwise 5 of them.
C12_ScoreIsRoundedAverage ==
    [][\A t \in DOMAIN active_sessions :
          (Ends(t) /\ EvaluatedTurns(History(t)) # {}) =>
             LET turns == EvaluatedTurns(History(t))
                 n == Cardinality(turns)
                 total == ScoreSum(History(t), turns)
                 score == sent'.msg.overall_score
                 strengths == Entries(History(t), turns, "strengths")
                 improvements == Entries(History(t), turns, "improvements")
             IN  /\ 2 * (score * n - total) <= n
                 /\ 2 * (total - score * n) <= n
                 /\ (2 * (score * n - total) = n \/ 2 * (total - score * n) = n)
                       => score % 2 = 0
                 /\ sent'.msg.strengths \subseteq strengths
                 /\ Cardinality(sent'.msg.strengths) = Min(5, Cardinality(strengths))
                 /\ sent'.msg.improvements \subseteq improvements
                 /\ Cardinality(sent'.msg.improvements)
                       = Min(5, Cardinality(improvements))]_vars

\* C12 witness: the feedback of two evaluations whose scores 5.5 and 7.5
\* average to 6.5, with the strengths of one and the improvements of the other
C12_Witness ==
    \E t \in DOMAIN active_sessions :
       /\ sent.type = "interview_completed"
       /\ Cardinality(EvaluatedTurns(History(t))) = 2
       /\ \E k \in EvaluatedTurns(History(t)) :
             /\ History(t)[k].evaluation.score = 55
             /\ History(t)[k].evaluation.improvements # <<>>
       /\ \E k \in EvaluatedTurns(History(t)) :
             /\ History(t)[k].evaluation.score = 75
             /\ History(t)[k].evaluation.strengths # <<>>
       /\ sent.msg.overall_score = 65
       /\ sent.msg.strengths # {}
       /\ sent.msg.improvements # {}

\* C13: a feedback payload that reports total_responses reports the number of
\* user turns of the history at that moment, follow-up answers and the
\* introduction included; it reports it whenever there is a user turn.
C13_TotalResponses ==
    [][\A t \in DOMAIN active_sessions :
          Ends(t) =>
             /\ "total_responses" \in DOMAIN sent'.msg
                   <=> UserTurns(History(t)) # {}
             /\ "total_responses" \in DOMAIN sent'.msg
                   => sent'.msg.total_responses = Cardinality(UserTurns(History(t)))]_vars

\* C13 witness: the introduction, an answer and the answer to a follow-up are
\* reported as 3 responses
C13_Witness ==
    \E t \in DOMAIN active_sessions :
       /\ sent.type = "interview_completed"
       /\ "total_responses" \in DOMAIN sent.msg
       /\ sent.msg.total_responses = 3
       /\ Len(History(t)) = 6
       /\ History(t)[4].content.kind = "followup"
       /\ History(t)[3].evaluation # NoEval

\* C14: the history only grows at its end, an evaluation is written only to
\* the last turn of the history and only when that turn is a user turn, and a
\* turn that carries an evaluation keeps it.
C14_AppendOnlyNoRetroactiveEvaluation ==
    [][\A t \in DOMAIN active_sessions :
          LET before == History(t)
              after == active_sessions'[t].conversation_history
          IN  /\ Len(after) >= Len(before)
              /\ \A k \in 1..Len(before) :
                    /\ after[k].role = before[k].role
                    /\ after[k].content = before[k].content
                    /\ after[k].evaluation # before[k].evaluation =>
                          /\ before[k].evaluation = NoEval
                          /\ before[k].role = "user"
                          /\ k = Len(before)
              /\ \A k \in (Len(before) + 1)..Len(after) :
                    after[k].evaluation = NoEval]_vars

\* C16: whatever messages of one token are in flight together, every user
\* turn that has a successor in the history is followed by an assistant turn,
\* and every evaluation sits on a user turn and is the evaluation of that
\* turn's own text.
C16_TurnsSerialized ==
    \A t \in DOMAIN active_sessions :
       LET history == History(t)
       IN  /\ \A k \in UserTurns(history) :
                 k < Len(history) => history[k + 1].role = "assistant"
           /\ \A k \in 1..Len(history) :
                 history[k].evaluation # NoEval =>
                    /\ history[k].role = "user"
                    /\ history[k].evaluation =
                          evaluate_answer(NoQ, history[k].content,
                                          active_sessions[t].session_type)

\* C15 (as claimed): the user turns of a history never number more than the
\* cursor plus one.
C15_UserTurnsWithinCursor ==
    \A t \in DOMAIN active_sessions :
       Cardinality(UserTurns(History(t))) <= Cursor(t) + 1

\* C15 (amended): the user turns of a history number exactly the assistant
\* turns plus the user_text messages whose reply is still to be generated, at
\* most one per connection; an answer that gets a follow-up adds a user turn
\* and leaves the cursor.
C15_UserTurnsWithinReplies ==
    \A t \in DOMAIN active_sessions :
       Cardinality(UserTurns(History(t))) =
          Cardinality(AssistantTurns(History(t)))
             + Cardinality({c \in Conns : pc[c] = "respond"})

\* C15 witness: three user turns, the last still unanswered, with the cursor
\* at 1 after a follow-up
C15_Witness ==
    \E t \in DOMAIN active_sessions :
       /\ Cursor(t) = 1
       /\ Len(History(t)) = 5
       /\ History(t)[4].content.kind = "followup"
       /\ History(t)[5].role = "user"
       /\ pc["ws1"] = "respond"

\* C17: a message whose type handle_message does not know, or that has no
\* type, changes neither the sessions nor the connection mapping, sends
\* nothing, and leaves the connection receiving.
C17_UnknownTypeIgnored ==
    [][\A c \in Conns, t \in DOMAIN active_sessions :
          \A message_type \in MessageTypes \
                {"connection_ready", "request_next_question", "end_interview"} :
             HandleMessage(c, t, message_type) =>
                /\ active_sessions' = active_sessions
                /\ websocket_connections' = websocket_connections
                /\ sent'.type = "none"
                /\ Receiving(c, t)']_vars

\* C17 witness: a message of unknown type was ignored in the middle of an
\* active interview
C17_Witness ==
    \E t \in DOMAIN active_sessions :
       /\ sent = Nothing("unknown_type")
       /\ Status(t) = "active"
       /\ Len(History(t)) = 2
       /\ Cursor(t) = 1
       /\ t \in DOMAIN websocket_connections
       /\ pc["ws1"] = "idle"

\* C18: a user_text whose stripped text has fewer than 5 characters and a
\* user_audio without transcription change nothing and send nothing; a
\* user_audio with a transcription does what a user_text with that text does.
C18_DroppedInputHasNoEffect ==
    [][\A c \in Conns, t \in DOMAIN active_sessions, text \in IgnoreTexts :
          /\ (HandleUserText(c, t, text, MaxUserTurns) /\ text.len < 5) =>
                /\ UNCHANGED <<active_sessions, websocket_connections, pc,
                               user_input, ai_response>>
                /\ sent'.type = "none"
          /\ (HandleUserAudio(c, t, text, MaxUserTurns) /\ text.pad + text.len = 0) =>
                /\ UNCHANGED <<active_sessions, websocket_connections, pc,
                               user_input, ai_response>>
                /\ sent'.type = "none"
          /\ text.pad + text.len > 0 =>
                (HandleUserAudio(c, t, text, MaxUserTurns)
                    <=> HandleUserText(c, t, text, MaxUserTurns))]_vars

\* C18 witness: a text too short was dropped after the first exchange
C18_Witness ==
    \E t \in DOMAIN active_sessions :
       /\ sent = Nothing("dropped_text")
       /\ Len(History(t)) = 2
       /\ Cursor(t) = 1
       /\ pc["ws1"] = "idle"
       /\ user_input["ws1"] = NoText

\* C19: a session is never removed from the store; a send that finds the
\* mapped connection closed removes the token's entry from the mapping, and a
\* send that finds no entry sends nothing; either way the handler goes on, and
\* where the step is the send alone the session is as it was.
C19_FailedSendDropsMappingOnly ==
    [][\A t \in DOMAIN active_sessions :
          /\ t \in DOMAIN active_sessions'
          /\ \A c \in Conns :
                ((Accepts(c) \/ Responds(c) \/ Delivers(c)) /\ ~Delivered(t)) =>
                   /\ t \notin DOMAIN websocket_connections'
                   /\ ~sent'.delivered
                   /\ sock' = sock
          /\ \A c \in Conns :
                (Delivers(c) /\ ~Delivered(t)) =>
                   /\ active_sessions' = active_sessions
                   /\ sent'.type = "ai_message"
                   /\ pc'[c] = "idle"]_vars

\* C19 witness: no handler has exited, the client is gone, the entry of the
\* token was removed by a failed send and the reply of the turn was then sent
\* to nobody, with the session still in the store
C19_Witness ==
    \E t \in DOMAIN active_sessions :
       /\ \A c \in Conns : pc[c] # "exited"
       /\ sock["ws1"] = "closed"
       /\ pc["ws1"] = "idle"
       /\ t \notin DOMAIN websocket_connections
       /\ sent.by = "ws1"
       /\ sent.type = "ai_message"
       /\ ~sent.delivered
       /\ Len(History(t)) = 2
       /\ Cursor(t) = 1

\* C20: a connection, a status query or an end request with a token that is
\* not in the store is answered with an error (Invalid session token on the
\* connection, not found on the endpoints) and changes neither the sessions
\* nor the connection mapping; only tokens of the store are ever mapped.
C20_UnknownTokenRejected ==
    [][/\ \A t \in RequestTokens \ DOMAIN active_sessions :
             /\ \A c \in Conns :
                   RejectConnect(c, t) =>
                      /\ sent' = Event(c, "error",
                                       Msg("invalid_session_token", 0, NoQ), TRUE)
                      /\ sock'[c] = "closed"
                      /\ pc'[c] = "exited"
                      /\ active_sessions' = active_sessions
                      /\ websocket_connections' = websocket_connections
             /\ (GetStatus(t) \/ EndHttp(t)) =>
                   /\ sent' = NotFound
                   /\ active_sessions' = active_sessions
                   /\ websocket_connections' = websocket_connections
       /\ DOMAIN websocket_connections' \subseteq DOMAIN active_sessions'
       /\ \A c \in Conns :
             sent' = Event(c, "ai_message", Msg("greeting", 0, NoQ), TRUE) =>
                \E t \in DOMAIN active_sessions : websocket_connections'[t] = c]_vars

\* C20 witness: the first connection was rejected, a second client is in the
\* middle of its interview, and a request with an unknown token got not found
C20_Witness ==
    \E t \in DOMAIN active_sessions :
       /\ sock["ws1"] = "closed"
       /\ pc["ws1"] = "exited"
       /\ t \in DOMAIN websocket_connections
       /\ websocket_connections[t] = "ws2"
       /\ Len(History(t)) = 2
       /\ Status(t) = "ready"
       /\ sent = NotFound

\* C21 (as claimed): when create_session returns for the category general
\* without a resume, the stored session has exactly 5 questions, cursor 0, an
\* empty history and the status ready.
C21_CreatedWithFiveQuestions ==
    [][\A t \in DOMAIN active_sessions' :
          (FinishCreate /\ active_sessions'[t].session_type = "general"
                        /\ active_sessions'[t].resume_text = NoResume) =>
             /\ Len(active_sessions'[t].questions) = 5
             /\ active_sessions'[t].current_question_index = 0
             /\ active_sessions'[t].conversation_history = <<>>
             /\ active_sessions'[t].status = "ready"]_vars

\* C21 (amended): when create_session returns for the category general
\* without a resume, the stored session has exactly 8 questions, the first 8
\* general templates in their declared order, cursor 0, an empty history and
\* the status ready.
C21_CreatedWithEightQuestions ==
    [][\A t \in DOMAIN active_sessions' :
          (FinishCreate /\ active_sessions'[t].session_type = "general"
                        /\ active_sessions'[t].resume_text = NoResume) =>
             /\ active_sessions'[t].questions = [i \in 1..8 |-> <<"general", i>>]
             /\ active_sessions'[t].current_question_index = 0
             /\ active_sessions'[t].conversation_history = <<>>
             /\ active_sessions'[t].status = "ready"
             /\ create_pc' = "done"]_vars

\* C21 witness: create_session has just returned the token of a general
\* session without resume
C21_Witness ==
    \E t \in DOMAIN active_sessions :
       /\ create_pc = "done"
       /\ active_sessions[t].session_type = "general"
       /\ active_sessions[t].resume_text = NoResume
       /\ Len(Questions(t)) = 8
       /\ Status(t) = "ready"
       /\ sock = [c \in Conns |-> "unused"]
       /\ sent = NoEvent


----------------------------------------------------------------------------
(* The question bank, called on its own *)

QuestionsReturned == call.fn = "generate_questions" /\ call.result # <<>>
\* the number of personalized questions of a list
PersonalizedCount(qs) == Cardinality({k \in 1..Len(qs) : qs[k][1] = "personalized"})
\* the positions of the triggers of a category that a resume matches
MatchedTriggers(session_type, resume_text) ==
    {i \in 1..Len(personalized_rules(session_type)) :
        personalized_rules(session_type)[i].any \cap resume_text.words # {}}
\* the list is P personalized questions, one per matched trigger in scan
\* order, followed by the templates of the category in declared order
WellFormedQuestions(qs, session_type, resume_text, num_questions) ==
    LET P == PersonalizedCount(qs)
        rules == personalized_rules(session_type)
        matched == MatchedTriggers(session_type, resume_text)
        pool == IF session_type \in SessionTypes THEN session_type ELSE "general"
    IN  /\ P <= num_questions \div 2
        /\ P > 0 => resume_text.pad + resume_text.len > 100
        /\ resume_text.pad + resume_text.len > 100 =>
              P = Min(num_questions \div 2, Cardinality(matched))
        /\ \A k \in 1..P :
              \E i \in matched :
                 /\ Cardinality({j \in matched : j <= i}) = k
                 /\ qs[k] = rules[i].q
        /\ \A k \in (P + 1)..Len(qs) : qs[k] = <<pool, k - P>>
        /\ Len(qs) > 0

\* C22 (as stated): generate_questions returns exactly min(count, pool size)
\* questions, the personalized ones first and then the templates of the
\* category in declared order, and never an empty list.
C22_LengthMinCountPool ==
    QuestionsReturned =>
       /\ Len(call.result[1]) = Min(call.args[3], Len(question_templates(call.args[1])))
       /\ WellFormedQuestions(call.result[1], call.args[1], call.args[2], call.args[3])

\* C22 (amended): for a count of at least 1, generate_questions returns
\* exactly min(count, P + pool size) questions, where P is the number of
\* personalized questions: these come first (only for a resume longer than
\* 100 characters, one per matched trigger in scan order, at most count // 2),
\* then the templates of the category in declared order; never an empty list.
C22_LengthMinCountPersonalizedPlusPool ==
    QuestionsReturned =>
       /\ Len(call.result[1]) =
             Min(call.args[3], PersonalizedCount(call.result[1])
                                  + Len(question_templates(call.args[1])))
       /\ WellFormedQuestions(call.result[1], call.args[1], call.args[2], call.args[3])

\* C22 witness: a call for more questions than a pool holds returned
\* personalized questions followed by the whole pool
C22_Witness ==
    /\ QuestionsReturned
    /\ call.args[3] > Len(question_templates(call.args[1]))
    /\ PersonalizedCount(call.result[1]) >= 2
    /\ Len(call.result[1]) > Len(question_templates(call.args[1]))
    /\ Last(call.result[1]) = <<"technical", 10>>


----------------------------------------------------------------------------
(* The evaluator, called on its own *)

EvaluationReturned == call.fn = "evaluate_answer" /\ call.result # <<>>

\* C23: the score of evaluate_answer is the baseline of the length step of
\* the stripped answer (2.0, 5.0, 7.0, 8.5 below 20, 100, 300 characters and
\* from 300 on) plus 0.5 once when a keyword of a technical or behavioral
\* question is present, hence within [0, 10]; length 10 without bonus gives
\* 2.0, a 250-character technical answer with "optimize" gives 7.5; at most 3
\* strengths and 3 improvements are returned.
C23_ScoreIsBaselinePlusBonus ==
    EvaluationReturned =>
       LET evaluation == call.result[1]
           answer == call.args[2]
           question_type == call.args[3]
           baseline == IF answer.len < 20 THEN 20
                       ELSE IF answer.len < 100 THEN 50
                       ELSE IF answer.len < 300 THEN 70 ELSE 85
           technical == {"implement", "algorithm", "optimize", "code", "system",
                         "database", "api"}
           behavioral == {"situation", "task", "action", "result", "challenge",
                          "solution"}
           bonus == \/ question_type = "technical" /\ answer.words \cap technical # {}
                    \/ question_type = "behavioral" /\ answer.words \cap behavioral # {}
       IN  /\ evaluation.score = baseline + (IF bonus THEN 5 ELSE 0)
           /\ evaluation.score >= 0 /\ evaluation.score <= 100
           /\ (answer.len = 10 /\ ~bonus) => evaluation.score = 20
           /\ (answer.len = 250 /\ question_type = "technical"
                 /\ "optimize" \in answer.words) => evaluation.score = 75
           /\ Len(evaluation.strengths) <= 3
           /\ Len(evaluation.improvements) <= 3

\* C23 witness: a 250-character technical answer containing "optimize",
\* sent with surrounding whitespace, was scored 7.5
C23_Witness ==
    /\ EvaluationReturned
    /\ call.args[3] = "technical"
    /\ call.args[2] = Text(2, 250, {"optimize"})
    /\ call.result[1].score = 75


----------------------------------------------------------------------------
(* Failures of the final feedback *)

\* C24: when generating the final feedback fails, on each completing path
\* (real-time end_interview, turn-based manual complete, turn-based
\* submission of the last answer) the session is completed and its feedback
\* payload is an error-description object.
C24_FailureStillCompletes ==
    /\ (call.fn = "complete_interview_session" /\ call.args[1] = "raises") =>
          /\ db.status = "completed"
          /\ DOMAIN db.feedback = {"error"}
    /\ (call.fn = "submit_answer" /\ call.args[3] = "raises") =>
          /\ db.status = "completed"
          /\ DOMAIN db.feedback = {"error"}
    /\ \A t \in DOMAIN active_sessions :
          sent \in {FeedbackFailed(by) : by \in Conns \cup {"http"}} =>
             /\ Status(t) = "completed"
             /\ sent.type = "interview_completed"


----------------------------------------------------------------------------
(* Completion without an end request *)

\* the questions of an active session are exhausted and the client has just
\* been sent a wrap-up
WrapUpDelivered ==
    \E t \in DOMAIN active_sessions :
       /\ Status(t) = "active"
       /\ Cursor(t) = Len(Questions(t))
       /\ sent.type = "ai_message"
       /\ sent.delivered
       /\ sent.msg.kind \in {"all_prepared", "concludes", "covered_all"}
FeedbackPushed ==
    \E t \in DOMAIN active_sessions :
       /\ Status(t) = "completed"
       /\ sent.type = "interview_completed"

\* C25: an active session whose questions are exhausted and whose wrap-up has
\* been delivered eventually becomes completed with the final feedback
\* pushed, without any end_interview message.
C25_ExhaustedEventuallyCompleted == WrapUpDelivered ~> FeedbackPushed


----------------------------------------------------------------------------
(* Evaluation of the later user turns *)

\* no handle_user_text is between its append and the send of its reply
Quiescent == \A c \in Conns : pc[c] \notin {"respond", "deliver"}

\* C26: once its handling is over, every accepted user turn but the first
\* user turn of the session carries an evaluation, computed with the content
\* of the last assistant turn before it as the question and its own text as
\* the answer.
C26_LaterTurnsEvaluatedAgainstLastQuestion ==
    \A t \in DOMAIN active_sessions :
       Quiescent =>
          LET history == History(t)
          IN  \A k \in UserTurns(history) :
                 (\E first \in UserTurns(history) : first < k) =>
                    LET prior == AssistantTurns(SubSeq(history, 1, k - 1))
                    IN  /\ prior # {}
                        /\ history[k].evaluation =
                              evaluate_answer(history[MaxOf(prior)].content,
                                              history[k].content,
                                              active_sessions[t].session_type)


----------------------------------------------------------------------------
(* After completion *)

\* C27: a completed session is frozen: no step taken after the status became
\* completed appends to the history, attaches an evaluation, moves the cursor
\* or emits another interview_completed event.
C27_CompletedIsFrozen ==
    [][\A t \in DOMAIN active_sessions :
          Status(t) = "completed" =>
             /\ active_sessions'[t].conversation_history = History(t)
             /\ active_sessions'[t].current_question_index = Cursor(t)
             /\ active_sessions'[t].status = "completed"
             /\ sent' # sent => sent'.type # "interview_completed"]_vars


----------------------------------------------------------------------------
(* What the client is sent and what the history holds *)

\* C28: every ai_message sent to the client is, when it is sent, the content
\* of the last turn of the history, an assistant turn, and the turns of the
\* history alternate between user and assistant.
C28_EveryAiMessageRecorded ==
    [][\A t \in DOMAIN active_sessions' :
          LET history == active_sessions'[t].conversation_history
          IN  /\ sent'.type = "ai_message" =>
                    /\ history # <<>>
                    /\ Last(history).role = "assistant"
                    /\ Last(history).content = sent'.msg
              /\ \A k \in 1..(Len(history) - 1) :
                    history[k].role # history[k + 1].role]_vars


----------------------------------------------------------------------------
(* Order of the prepared questions *)

\* C29: the prepared questions are sent in order, none twice and none
\* skipped, so that the questions sent so far are the first cursor questions
\* of the list: whenever an ai_message carries a prepared question, it is the
\* question the cursor has just passed.
C29_QuestionsSentInOrder ==
    [][\A t \in DOMAIN active_sessions' :
          (sent'.type = "ai_message" /\ sent'.msg.q # NoQ) =>
             /\ active_sessions'[t].current_question_index > 0
             /\ sent'.msg.q =
                   active_sessions'[t].questions[
                       active_sessions'[t].current_question_index]]_vars


----------------------------------------------------------------------------
(* The connection a token is mapped to *)

\* C30: the cleanup of a connection does not remove the mapping of another
\* connection that is still open: a token mapped to a connection that stays
\* open stays mapped to an open connection.
C30_CleanupKeepsLiveMapping ==
    [][\A t \in DOMAIN websocket_connections :
          sock'[websocket_connections[t]] = "open" =>
             /\ t \in DOMAIN websocket_connections'
             /\ sock'[websocket_connections'[t]] = "open"]_vars

====
